---- MODULE Spec2Model ----
(***************************************************************************)
(* A model of openrec-dl.py: the batch loop of main, dl_movie, the         *)
(* playlist derivation, the format selection, dl_m3u8_video and the        *)
(* StreamDownloader (worker pool, retry, in-order reassembly).             *)
(*                                                                         *)
(* Conventions.                                                            *)
(*  - A URL is a record [host, path]; a path is a sequence of segments     *)
(*    [name, ext].  The regular expressions of the source are predicates   *)
(*    on that structure; character classes are sets of sample strings.     *)
(*  - None / "" (every falsy URL) is NoUrl; a None mapping is NoMedia.     *)
(*  - The body of segment i is Body(i); bytes left on disk by an earlier    *)
(*    run are Old.                                                         *)
(*  - gevent greenlets are cooperative: a worker or the consumer runs      *)
(*    without interruption between two yield points (a network request,    *)
(*    sleep), so each action covers the code between two yield points.     *)
(*  - The options --write-info-json, --write-thumbnail, --write-live-chat  *)
(*    are left unset (metadata persistence is outside the engine).         *)
(***************************************************************************)
EXTENDS Integers, Sequences, FiniteSets, TLC

\* ------------------------------------------------------------------ bounds
MaxSegs == 2
MaxFormats == 3
MaxRecursion == 2
MaxPages == 2
MaxAttrs == 2
MaxEntries == 2
PoolSegs == 12
\* the requests of the private lookup are counted up to MaxRequests
MaxRequests == 3
\* MAX_MOVIE_RESPONSE, the length of a full page of the movie listing (40 in
\* the source), scaled down.
MAX_MOVIE_RESPONSE == 2

\* ------------------------------------------------------- program constants
PoolSize == 10
MaxAttempts == 5

Movies == {"m1", "m2"}
Channels == {"c1"}
NoMovie == ""

\* --------------------------------------------------------------- sequences
Front(s) == SubSeq(s, 1, Len(s) - 1)
Last(s) == s[Len(s)]
Range(s) == {s[i] : i \in 1..Len(s)}
SeqsUpTo(S, n) == UNION {[1..k -> S] : k \in 0..n}
Iota(n) == [i \in 1..n |-> i - 1]

\* -------------------------------------------------------------------- URLs
Dir(n) == [name |-> n, ext |-> ""]
File(n) == [name |-> n, ext |-> "m3u8"]
NoUrl == [host |-> "", path |-> <<>>]
Url(h, p) == [host |-> h, path |-> p]

\* [0-9]{1,}, [a-f0-9]{1,}, [0-9]{1,}_[a-zA-Z]{1,}, [a-z0-9]{1,}\.cloudfront\.net
Digits == {"12", "345"}
Hex == Digits \cup {"a1f"}
DigitsAlpha == {"12_abc"}
CloudfrontHosts == {"d1abc.cloudfront.net"}
S3Host == "openrec-live.s3.amazonaws.com"

OLD_PL_HOST(u) ==
    /\ u.host = S3Host
    /\ Len(u.path) = 4
    /\ u.path[1] = Dir("studio")
    /\ u.path[2].ext = "" /\ u.path[2].name \in Digits
    /\ u.path[3].ext = "" /\ u.path[3].name \in Digits
    /\ u.path[4] = File("index")

NEW_PL_HOST(u) ==
    /\ u.host \in CloudfrontHosts
    /\ Len(u.path) = 2
    /\ u.path[1].ext = "" /\ u.path[1].name \in Hex
    /\ u.path[2].ext = "m3u8" /\ u.path[2].name # ""

GAME_PL_HOST(u) ==
    /\ u.host \in CloudfrontHosts
    /\ Len(u.path) = 4
    /\ u.path[1].ext = "" /\ u.path[1].name \in Digits
    /\ u.path[2].ext = "" /\ u.path[2].name \in DigitsAlpha
    /\ u.path[3] = Dir("game")
    /\ u.path[4].ext = "m3u8" /\ u.path[4].name # ""

\* urllib.parse.urljoin(base_url, f"{template}.m3u8"): the last segment of the
\* base is replaced by the template's segments.
urljoin(base, template) == Url(base.host, Front(base.path) \o template)

NORMAL_MAP == <<
    <<"url", <<File("normal")>> >>,
    <<"_url_playlist", <<File("playlist")>> >>,
    <<"url_public", <<File("public")>> >>,
    <<"url_audio", <<File("aac")>> >>,
    <<"url_source", <<Dir("chunklist_source"), File("chunklist")>> >>,
    <<"url_high", <<Dir("chunklist_high"), File("chunklist")>> >>,
    <<"url_medium", <<Dir("chunklist_medium"), File("chunklist")>> >>,
    <<"url_low_latency", <<Dir("chunklist_low"), File("chunklist")>> >> >>

PLAYLIST_MAP == <<
    <<"url", <<File("playlist")>> >>,
    <<"_url_normal", <<File("normal")>> >>,
    <<"url_public", <<File("public")>> >>,
    <<"url_audio", <<File("aac")>> >>,
    <<"url_source", <<Dir("chunklist_source"), File("chunklist")>> >>,
    <<"url_high", <<Dir("chunklist_high"), File("chunklist")>> >>,
    <<"url_medium", <<Dir("chunklist_medium"), File("chunklist")>> >>,
    <<"url_low_latency", <<Dir("chunklist_low"), File("chunklist")>> >>,
    <<"url_ull", <<Dir("chunklist_144p"), File("chunklist")>> >> >>

GAME_MAP == <<
    <<"url_source", <<File("source")>> >>,
    <<"url_high", <<File("2000kbps")>> >>,
    <<"url_medium", <<File("1000kbps")>> >> >>

\* The keys of the "media" object of the public API, in the order of the
\* response (the iteration order of the dict).
MediaKeys == <<"url", "url_public", "url_audio", "url_source">>

NoMedia == <<>>
Get(media, k) == IF k \in DOMAIN media THEN media[k] ELSE NoUrl
Put(media, k, v) == [x \in DOMAIN media \cup {k} |-> IF x = k THEN v ELSE media[x]]

\* for url_type in media_json: if media_json[url_type]: base_url = ...; break
RECURSIVE FirstUrl(_, _)
FirstUrl(media, i) ==
    IF i > Len(MediaKeys) THEN NoUrl
    ELSE IF Get(media, MediaKeys[i]) # NoUrl THEN media[MediaKeys[i]]
    ELSE FirstUrl(media, i + 1)

\* if not pl_type in media_json or not media_json[pl_type]: media_json[pl_type] = urljoin(...)
FillEntry_Overwrite(media, base, entry) == Put(media, entry[1], urljoin(base, entry[2]))
FillEntry(media, base, entry) ==
    IF entry[1] \notin DOMAIN media \/ media[entry[1]] = NoUrl
    THEN Put(media, entry[1], urljoin(base, entry[2]))
    ELSE media

RECURSIVE FillPlaylists(_, _, _, _)
FillPlaylists(media, base, pl_map, i) ==
    IF i > Len(pl_map) THEN media
    ELSE FillPlaylists(FillEntry(media, base, pl_map[i]), base, pl_map, i + 1)

\* pl_map chosen from the base URL; <<>> stands for "no known host".
PlMap(base) ==
    IF NEW_PL_HOST(base)
    THEN (IF Last(base.path).name = "normal" THEN NORMAL_MAP ELSE PLAYLIST_MAP)
    ELSE IF GAME_PL_HOST(base) THEN GAME_MAP
    ELSE <<>>

\* derive_media_playlists from "if not base_url" on: the mapping returned for
\* the base URL found, NoMedia for None.
DerivePlaylists(media, base) ==
    IF base = NoUrl THEN NoMedia
    ELSE IF OLD_PL_HOST(base) THEN Put(media, "url", base)
    ELSE IF PlMap(base) = <<>> THEN NoMedia
    ELSE FillPlaylists(media, base, PlMap(base), 1)

\* ------------------------------------------------------- format selection
\* A rendition as get_m3u8_info emits it; its location is its line's place
\* in the manifest.  downloading_format is a location, 0 for None.
Rendition(n, g, b, loc) == [NAME |-> n, GROUPID |-> g, BANDWIDTH |-> b, location |-> loc]

\* One step of the loop of dl_movie over formats_list: st is
\* [fmt, best, stop] (downloading_format, best_bitrate, break taken).
FormatStep_NoSourceBreak(st, f, selector) ==
    IF selector = "best"
    THEN IF f.BANDWIDTH > st.best
         THEN [fmt |-> f.location, best |-> f.BANDWIDTH, stop |-> FALSE]
         ELSE st
    ELSE IF selector \in {f.NAME, f.GROUPID}
         THEN [st EXCEPT !.fmt = f.location, !.stop = TRUE]
         ELSE st
FormatStep_LastMatch(st, f, selector) ==
    IF selector = "best"
    THEN IF f.NAME = "Source"
         THEN [st EXCEPT !.fmt = f.location, !.stop = TRUE]
         ELSE IF f.BANDWIDTH > st.best
              THEN [fmt |-> f.location, best |-> f.BANDWIDTH, stop |-> FALSE]
              ELSE st
    ELSE IF selector \in {f.NAME, f.GROUPID}
         THEN [st EXCEPT !.fmt = f.location]
         ELSE st
FormatStep(st, f, selector) ==
    IF selector = "best"
    THEN IF f.NAME = "Source"
         THEN [st EXCEPT !.fmt = f.location, !.stop = TRUE]
         ELSE IF f.BANDWIDTH > st.best
              THEN [fmt |-> f.location, best |-> f.BANDWIDTH, stop |-> FALSE]
              ELSE st
    ELSE IF selector \in {f.NAME, f.GROUPID}
         THEN [st EXCEPT !.fmt = f.location, !.stop = TRUE]
         ELSE st

RECURSIVE ScanFormats(_, _, _, _)
ScanFormats(formats, selector, i, st) ==
    IF i > Len(formats) \/ st.stop THEN st
    ELSE ScanFormats(formats, selector, i + 1, FormatStep(st, formats[i], selector))

SelectFormat(formats, selector) ==
    ScanFormats(formats, selector, 1, [fmt |-> 0, best |-> 0, stop |-> FALSE]).fmt

\* ---------------------------------------------------------------- strings
\* A string of a manifest is a sequence of symbols, each standing for one
\* character or for a run of characters of one class; "" is <<>>.
Quote == "dq"
\* symbols made of characters of [A-Z0-9-] only
KeyChars == {"BANDWIDTH", "RESOLUTION", "CODECS", "NAME", "800000", "640", "360"}
Max(S) == CHOOSE x \in S : \A y \in S : y <= x
\* the first place of c in s from place p on, 0 if there is none
Find(s, c, p) ==
    IF \E i \in p..Len(s) : s[i] = c
    THEN CHOOSE i \in p..Len(s) : s[i] = c /\ \A j \in p..(i - 1) : s[j] # c
    ELSE 0
\* str.split(sep): the pieces of s between the occurrences of sep
RECURSIVE Split(_, _)
Split(s, sep) ==
    LET i == Find(s, sep, 1)
    IN  IF i = 0 THEN <<s>>
        ELSE <<SubSeq(s, 1, i - 1)>> \o Split(SubSeq(s, i + 1, Len(s)), sep)
StartsWith(s, c) == s # <<>> /\ s[1] = c
\* line.startswith("#")
StartsWithHash(s) ==
    s # <<>> /\ s[1] \in {"#EXT-X-MEDIA:", "#EXT-X-STREAM-INF:", "#EXTM3U"}
\* line.endswith(".m3u8")
EndsWithM3u8(s) == Len(s) >= 2 /\ s[Len(s) - 1] = "." /\ s[Len(s)] = "m3u8"

\* -------------------------------------------------- parse_m3u8_attributes
\* The regular expression
\*   (?P<key>[A-Z0-9-]+)=(?P<val>"[^"]+"|[^",]+)(?:,|$)
\* tried at place p of s: the match, or NoMatch.
NoMatch == [ok |-> FALSE]
IsKeyChar(c) == c \in KeyChars
IsUnquotedChar(c) == c \notin {Quote, ","}
\* [A-Z0-9-]+ and [^",]+ from place p: the end of the longest run (p - 1 if
\* it is empty)
KeyRunEnd(s, p) == Max({j \in (p - 1)..Len(s) : \A k \in p..j : IsKeyChar(s[k])})
UnquotedRunEnd(s, p) == Max({j \in (p - 1)..Len(s) : \A k \in p..j : IsUnquotedChar(s[k])})
\* (?:,|$) after a value that ends at place e
Closes(s, e) == e = Len(s) \/ s[e + 1] = ","
MatchEnd(s, e) == IF e = Len(s) THEN e + 1 ELSE e + 2
MatchAt(s, p) ==
    LET k == KeyRunEnd(s, p)
        v == k + 2
    IN  IF k < p \/ v > Len(s) \/ s[k + 1] # "=" THEN NoMatch
        ELSE IF s[v] = Quote
        THEN LET q == Find(s, Quote, v + 1)
             IN  IF q > v + 1 /\ Closes(s, q)
                 THEN [ok |-> TRUE, key |-> SubSeq(s, p, k), val |-> SubSeq(s, v, q),
                       next |-> MatchEnd(s, q)]
                 ELSE NoMatch
        ELSE LET e == UnquotedRunEnd(s, v)
             IN  IF e >= v /\ Closes(s, e)
                 THEN [ok |-> TRUE, key |-> SubSeq(s, p, k), val |-> SubSeq(s, v, e),
                       next |-> MatchEnd(s, e)]
                 ELSE NoMatch

\* if val.startswith("\""): val = val[1:-1]
Strip_Keep(val) == val
Strip(val) == IF StartsWith(val, Quote) THEN SubSeq(val, 2, Len(val) - 1) ELSE val

\* re.findall from place p on, each match stored in info
RECURSIVE FindAll(_, _, _)
FindAll(s, p, info) ==
    IF p > Len(s) THEN info
    ELSE LET m == MatchAt(s, p)
         IN  IF m.ok THEN FindAll(s, m.next, Put(info, m.key, Strip(m.val)))
             ELSE FindAll(s, p + 1, info)

NoDetails == <<>>
parse_m3u8_attributes(attrib) == FindAll(attrib, 1, NoDetails)

\* ---------------------------------------------------------- get_m3u8_info
\* The name made up for a rendition without media details
SynthName_ResolutionFirst(line, format_details) ==
    IF <<"RESOLUTION">> \in DOMAIN format_details
    THEN Append(Split(format_details[<<"RESOLUTION">>], "x")[2], "p")
    ELSE IF "source" \in Range(line) THEN <<"Source">>
    ELSE Split(Split(line, "/")[1], ".")[1]
SynthName(line, format_details) ==
    IF "source" \in Range(line) THEN <<"Source">>
    ELSE IF <<"RESOLUTION">> \in DOMAIN format_details
    THEN Append(Split(format_details[<<"RESOLUTION">>], "x")[2], "p")
    ELSE Split(Split(line, "/")[1], ".")[1]

SynthMedia(name) ==
    Put(Put(Put(NoDetails, <<"NAME">>, name), <<"GROUP-ID">>, <<>>), <<"TYPE">>, <<>>)
\* if not key in format_details: format_details[key] = ""
WithDefault_Omit(details, key) == details
WithDefault(details, key) == IF key \in DOMAIN details THEN details ELSE Put(details, key, <<>>)
WithDefaults(details) ==
    WithDefault(WithDefault(WithDefault(details, <<"FRAME-RATE">>), <<"RESOLUTION">>),
                <<"CODECS">>)

\* One turn of the loop over m3u8_text.splitlines(): st is
\* [media_details, format_details, m3u8_info]; None and {} are NoDetails.
InfoLine(st, line) ==
    IF StartsWith(line, "#EXT-X-MEDIA:")
    THEN [st EXCEPT !.media_details = parse_m3u8_attributes(line)]
    ELSE IF StartsWith(line, "#EXT-X-STREAM-INF:")
    THEN [st EXCEPT !.format_details = parse_m3u8_attributes(line)]
    ELSE IF StartsWithHash(line) \/ ~EndsWithM3u8(line) THEN st
    ELSE IF st.format_details = NoDetails THEN st
    ELSE LET md == IF st.media_details = NoDetails
                   THEN SynthMedia(SynthName(line, st.format_details))
                   ELSE st.media_details
             fd == WithDefaults(st.format_details)
         IN  [media_details |-> NoDetails, format_details |-> NoDetails,
              m3u8_info |-> Append(st.m3u8_info,
                                   [location |-> line, media |-> md, format |-> fd])]

\* ------------------------------------------------------------------ files
Body(i) == [seg |-> i]
Old == [old |-> TRUE]
NoFile == [exists |-> FALSE, data |-> <<>>]
FileOf(d) == [exists |-> TRUE, data |-> d]
NoSegs == <<>>
Bodies(n) == [i \in 1..n |-> Body(i - 1)]

\* The files of one movie in args.directory: <name>.mp4 ("none", "full" or
\* "partial"), <name>.ts, <name>.ts.tmp and the <name>.seg<i> artifacts.
CleanDir == [mp4 |-> "none", ts |-> NoFile, tmp |-> NoFile, segs |-> NoSegs]
PreStates == {
    CleanDir,
    [CleanDir EXCEPT !.ts = FileOf(<<Old>>)],
    [CleanDir EXCEPT !.mp4 = "full"],
    [CleanDir EXCEPT !.tmp = FileOf(<<Old>>), !.segs = [i \in {1} |-> Old]] }
\* The same, and the artifacts of a run that ended while it removed the
\* progress of an earlier one: <name>.ts.tmp is gone, an artifact is not.
LeftBehind == PreStates \cup {[CleanDir EXCEPT !.segs = [i \in {0} |-> Old]]}

\* ----------------------------------------------------------------- inputs
OldUrl == Url(S3Host, <<Dir("studio"), Dir("12"), Dir("345"), File("index")>>)
NewNormalUrl == Url("d1abc.cloudfront.net", <<Dir("a1f"), File("normal")>>)
NewPublicUrl == Url("d1abc.cloudfront.net", <<Dir("a1f"), File("public")>>)
NewOtherUrl == Url("d1abc.cloudfront.net", <<Dir("12"), File("index")>>)
GameUrl == Url("d1abc.cloudfront.net", <<Dir("12"), Dir("12_abc"), Dir("game"), File("source")>>)
UnknownUrl == Url("cdn.example.com", <<Dir("live"), File("playlist")>>)
BaseUrls == {OldUrl, NewNormalUrl, NewPublicUrl, NewOtherUrl, GameUrl, UnknownUrl}
SiteUrl(k) == Url("site.example.com", <<File(k)>>)

\* Every "media" object over MediaKeys: the two index entries hold nothing, a
\* site URL or a base URL of any hosting pattern; the others nothing or a
\* site URL.
MediaOf(u, p, a, s) == [url |-> u, url_public |-> p, url_audio |-> a, url_source |-> s]
AllMedia == {MediaOf(u, p, a, s) :
                u \in {NoUrl, SiteUrl("url")} \cup BaseUrls,
                p \in {NoUrl, SiteUrl("url_public")} \cup BaseUrls,
                a \in {NoUrl, SiteUrl("url_audio")},
                s \in {NoUrl, SiteUrl("url_source")}}
\* The "media" objects the batch model draws from.
BatchMedia == {MediaOf(u, p, NoUrl, NoUrl) :
                u \in {NoUrl, NewPublicUrl},
                p \in {NoUrl, NewPublicUrl, GameUrl, UnknownUrl}}

Names == {"Source", "720p", "low"}
Groups == {"720p", "main"}
Bandwidths == {0, 300, 1200}
Selectors == {"best", "720p", "low"}
Located(fl) == [i \in 1..Len(fl) |-> Rendition(fl[i][1], fl[i][2], fl[i][3], i)]
AllFormats == {Located(fl) : fl \in SeqsUpTo(Names \X Groups \X Bandwidths, MaxFormats)}
\* The rendition lists the batch model draws from.
BatchFormats == {Located(fl) : fl \in SeqsUpTo(
                    {<<"Source", "main", 300>>, <<"720p", "main", 300>>, <<"low", "720p", 300>>}, 2)}

AllArgs == [format : Selectors, list_formats : BOOLEAN, skip_download : BOOLEAN,
            skip_convert : BOOLEAN, download_archive : BOOLEAN, ps : BOOLEAN]

\* The command lines the batch model draws from.  The options read before
\* the download (the selector, the private session) and those read after it
\* (--skip-convert, --download-archive) are varied one group at a time.
BatchArgs == {a \in AllArgs :
                /\ a.format \in {"best", "720p"}
                /\ (a.ps \/ a.format # "best") => (a.skip_convert /\ ~a.download_archive)}
\* The batches: none, one link, the same link twice, two links.
BatchLinks == {<<>>, <<"m1">>, <<"m1", "m1">>, <<"m1", "m2">>}
\* The batches with a channel link, and the command lines they are run with.
ChannelLinks == {<<"c1">>, <<"c1", "m2">>}
ChannelArgs == {a \in AllArgs : /\ a.format = "best" /\ ~a.ps
                                /\ a.skip_convert /\ ~a.download_archive
                                /\ (a.list_formats => ~a.skip_download)}
\* A page of the movie listing of a channel: the ids of its first n movies.
Page(n) == [i \in 1..n |-> IF i % 2 = 1 THEN "m1" ELSE "m2"]
Pages == {Page(n) : n \in 0..MAX_MOVIE_RESPONSE}

\* The answers of the private API to movies/<id>/detail: the response is not
\* ok; its body has a negative status; it has no items; its first item has a
\* playlist URL; or it has none, and views_limit says what it says.
Detail(ok, status, items, url, perm, remain) ==
    [ok |-> ok, status |-> status, items |-> items, url |-> url,
     has_permission |-> perm, remain |-> remain]
NoResponse == Detail(FALSE, 0, 0, NoUrl, FALSE, 0)
DetailResponses ==
    {Detail(FALSE, 0, 0, NoUrl, FALSE, 0), Detail(TRUE, -1, 0, NoUrl, FALSE, 0),
     Detail(TRUE, 0, 0, NoUrl, FALSE, 0)}
    \cup {Detail(TRUE, 0, 1, u, FALSE, 0) : u \in BaseUrls}
    \cup {Detail(TRUE, 0, 1, NoUrl, p, r) : p \in BOOLEAN, r \in {0, 1}}
\* The answers to the POST of users/me/views-limit.
View(ok, status, perm, remain) ==
    [ok |-> ok, status |-> status, has_permission |-> perm, remain |-> remain]
ViewResponses ==
    {View(FALSE, 0, FALSE, 0), View(TRUE, -1, FALSE, 0)}
    \cup {View(TRUE, 0, p, r) : p \in BOOLEAN, r \in {0, 1}}

\* The lines of a manifest.
Attr(k, v) == <<k, "=">> \o v
Quoted(v) == <<Quote>> \o v \o <<Quote>>
RECURSIVE JoinAttrs(_)
JoinAttrs(as) ==
    IF as = <<>> THEN <<>>
    ELSE IF Len(as) = 1 THEN Attr(as[1].key, as[1].text)
    ELSE Attr(as[1].key, as[1].text) \o <<",">> \o JoinAttrs(Tail(as))
TagLine(tag, as) == <<tag>> \o JoinAttrs(as)

\* An attribute as written: its key, its value and the text of the value
\* (the value itself, or the value between quotes).
Plain(k, v) == [key |-> k, value |-> v, text |-> v]
InQuotes(k, v) == [key |-> k, value |-> v, text |-> Quoted(v)]
AttrKeys == {"BANDWIDTH", "CODECS", "NAME"}
AttrForms == UNION {{ Plain(k, <<"800000">>), Plain(k, <<"640", "x", "360">>),
                      InQuotes(k, <<"main">>),
                      InQuotes(k, <<"avc1.4d401e", ",", "mp4a.40.2">>),
                      InQuotes(k, <<>>) } : k \in AttrKeys}
\* the attribute lists of up to MaxAttrs attributes with distinct keys
AttrLists == {as \in UNION {[1..n -> AttrForms] : n \in 1..MaxAttrs} :
                \A i, j \in 1..Len(as) : as[i].key = as[j].key => i = j}
TagLines == {TagLine(tag, as) : tag \in {"#EXT-X-MEDIA:", "#EXT-X-STREAM-INF:"},
                               as \in AttrLists}

MediaLine == TagLine("#EXT-X-MEDIA:", <<InQuotes("NAME", <<"720p">>)>>)
FormatLineRes == TagLine("#EXT-X-STREAM-INF:",
    <<Plain("BANDWIDTH", <<"800000">>), Plain("RESOLUTION", <<"640", "x", "360">>)>>)
FormatLineNoRes == TagLine("#EXT-X-STREAM-INF:", <<Plain("BANDWIDTH", <<"800000">>)>>)
LocationLines == {
    <<"chunklist_", "source", "/", "chunklist", ".", "m3u8">>,
    <<"low", "/", "chunklist", ".", "m3u8">>,
    <<"low", ".", "m3u8">>,
    <<"low", ".", "v2", ".", "m3u8">>,
    <<"https:", "/", "/", "host", "/", "low", ".", "m3u8">>,
    <<"low", ".", "ts">> }
\* One rendition of a master playlist: a media tag or none, a format tag or
\* none, a location line.
Entries == {m \o f \o <<l>> : m \in {<<>>, <<MediaLine>>},
                              f \in {<<>>, <<FormatLineRes>>, <<FormatLineNoRes>>},
                              l \in LocationLines}
RECURSIVE Flatten(_)
Flatten(ss) == IF ss = <<>> THEN <<>> ELSE Head(ss) \o Flatten(Tail(ss))
Playlists == {<<<<"#EXTM3U">>>> \o Flatten(es) : es \in SeqsUpTo(Entries, MaxEntries)}

\* ------------------------------------------------------------------ state
VARIABLES
    args,               \* the parsed command line
    links,              \* args.links, each a movie id
    link_i,             \* the place of main's loop in links (0 before the first)
    movie_id,           \* dl_movie: movie_id
    caller,             \* the caller of dl_movie: "main" or "dl_channel"
    movie_list,         \* dl_channel: movie_list, the pages appended to it
    movie_list_response, \* dl_channel: the last page fetched
    movie_page_index,   \* dl_channel: movie_page_index
    movie_index,        \* dl_channel: the number of movies of the page handed to dl_movie
    pc,                 \* the place of the main greenlet
    fs,                 \* the files of each movie in args.directory
    archive,            \* the ids listed in the download archive
    log,                \* the lines dl_movie and dl_m3u8_video logged for the link
    media_json,         \* m_json["media"] as the API returned it
    base_url,           \* derive_media_playlists: base_url
    view_res,           \* derive_media_playlists: view_res is truthy
    media,              \* m_json["media"] after derive_media_playlists
    formats_list,       \* dl_movie: formats_list
    downloading_format, \* dl_movie: downloading_format (0 is None)
    pm_json,            \* derive_media_playlists: the last answer to the detail request
    detail_requests,    \* the detail requests made for the movie
    view_requests,      \* the free-watch requests made for the movie
    ts_list,            \* the items Pool.map has not yet handed to a worker
    ts_count,           \* StreamDownloader.ts_count
    success,            \* StreamDownloader.success
    failed_list,        \* StreamDownloader.failed_list
    completed,          \* the keys of StreamDownloader.completed
    workers,            \* running _download_worker greenlets: index -> retry
    index,              \* _append_file: index
    stream_file,        \* "none", "open" or "closed"
    depth,              \* the depth of the recursion of _download_segments
    \* history, read by the properties only
    requested,          \* kinds of request made since dl_m3u8_video was entered
    dl_entry,           \* the files of the movie when dl_m3u8_video was entered
    manifest,           \* the answer to the fetch of the rendition manifest
    exhausted,          \* the indices whose worker used all its attempts
    outOfOrder,         \* a segment was published before a smaller index
    fifthOk,            \* a segment was published by its last attempt
    nomatch,            \* the links for which the selection found no format
    \* get_m3u8_info
    m3u8_text,          \* the lines of the master playlist
    line_i,             \* the number of lines the loop has handled
    media_details,      \* get_m3u8_info: media_details
    format_details,     \* get_m3u8_info: format_details
    m3u8_info           \* get_m3u8_info: m3u8_info

privVars == <<pm_json, detail_requests, view_requests>>
jobVars == <<media_json, base_url, view_res, media, formats_list, downloading_format, privVars>>
dlVars == <<ts_list, ts_count, success, failed_list, completed, workers, index,
            stream_file, depth>>
histVars == <<requested, dl_entry, manifest, exhausted, outOfOrder, fifthOk>>
chanVars == <<movie_id, caller, movie_list, movie_list_response, movie_page_index, movie_index>>
infoVars == <<m3u8_text, line_i, media_details, format_details, m3u8_info>>
vars == <<args, links, chanVars, link_i, pc, fs, archive, log, jobVars, dlVars, histVars,
          nomatch, infoVars>>

cur == movie_id
NoEntry == [active |-> FALSE, final |-> FALSE, tmp |-> NoFile, segs |-> NoSegs]
NoManifest == [status |-> "none", lines |-> 0]

PrivInit == pm_json = NoResponse /\ detail_requests = 0 /\ view_requests = 0
JobInit ==
    /\ media_json = NoMedia /\ base_url = NoUrl /\ view_res = FALSE /\ media = NoMedia
    /\ formats_list = <<>> /\ downloading_format = 0
    /\ PrivInit
DlInit ==
    /\ ts_list = <<>> /\ ts_count = 0 /\ success = TRUE /\ failed_list = <<>>
    /\ completed = {} /\ workers = <<>> /\ index = 0 /\ stream_file = "none" /\ depth = 0
ChanInit ==
    /\ movie_id = NoMovie /\ caller = "main" /\ movie_list = <<>>
    /\ movie_list_response = <<>>
    /\ movie_page_index = 1 /\ movie_index = 0
InfoInit ==
    /\ m3u8_text = <<>> /\ line_i = 0 /\ media_details = NoDetails
    /\ format_details = NoDetails /\ m3u8_info = <<>>
HistInit ==
    /\ requested = {} /\ dl_entry = NoEntry /\ manifest = NoManifest
    /\ exhausted = {} /\ outOfOrder = FALSE /\ fifthOk = FALSE

PrivReset == pm_json' = NoResponse /\ detail_requests' = 0 /\ view_requests' = 0
JobReset ==
    /\ media_json' = NoMedia /\ base_url' = NoUrl /\ view_res' = FALSE /\ media' = NoMedia
    /\ formats_list' = <<>> /\ downloading_format' = 0
    /\ PrivReset
DlReset ==
    /\ ts_list' = <<>> /\ ts_count' = 0 /\ success' = TRUE /\ failed_list' = <<>>
    /\ completed' = {} /\ workers' = <<>> /\ index' = 0 /\ stream_file' = "none"
    /\ depth' = 0
HistReset ==
    /\ requested' = {} /\ dl_entry' = NoEntry /\ manifest' = NoManifest
    /\ exhausted' = {} /\ outOfOrder' = FALSE /\ fifthOk' = FALSE

\* The state when main enters its loop over args.links.
Init ==
    /\ \/ /\ args \in BatchArgs
          /\ links \in BatchLinks
          /\ fs \in {f \in [Movies -> PreStates] : f["m2"] = CleanDir}
       \/ /\ args \in ChannelArgs
          /\ links \in ChannelLinks
          /\ fs = [m \in Movies |-> CleanDir]
    /\ ChanInit /\ InfoInit
    /\ link_i = 0
    /\ pc = "main"
    /\ archive \in (IF args.download_archive THEN {{}, {"m1"}} ELSE {{}})
    /\ log = {}
    /\ nomatch = {}
    /\ JobInit /\ DlInit /\ HistInit

\* ------------------------------------------------------------------- main
Return == pc' = IF caller = "dl_channel" THEN "channel_loop" ELSE "main"
Raise == pc' = "crashed"

\* main: for link in args.links -> dl_movie(...)
MainNext ==
    /\ pc = "main" /\ link_i < Len(links)
    /\ link_i' = link_i + 1
    /\ IF links[link_i'] \in Channels
       THEN pc' = "dl_channel" /\ UNCHANGED movie_id
       ELSE pc' = "dl_movie" /\ movie_id' = links[link_i']
    /\ caller' = "main"
    /\ log' = {}
    /\ JobReset /\ DlReset /\ HistReset
    /\ UNCHANGED <<infoVars, args, links, movie_list, movie_list_response, movie_page_index,
                   movie_index, fs, archive, nomatch>>

MainExit ==
    /\ pc = "main" /\ link_i = Len(links)
    /\ pc' = "exit"
    /\ UNCHANGED <<infoVars, args, links, chanVars, link_i, fs, archive, log, jobVars, dlVars, histVars, nomatch>>

\* ------------------------------------------------------------- dl_channel
\* dl_channel up to the movie listing: --list-formats is refused, then the
\* channel and search requests
ChannelStart ==
    /\ pc = "dl_channel"
    /\ IF args.list_formats
       THEN /\ log' = log \cup {"cannot use argument --list-formats with channel link"}
            /\ pc' = "main"
       ELSE \/ Raise /\ UNCHANGED log
            \/ /\ log' = log \cup {"failed to get channel information"}
               /\ pc' = "main"
            \/ pc' = "channel_pages" /\ UNCHANGED log
    /\ movie_list' = <<>> /\ movie_list_response' = <<>>
    /\ movie_page_index' = 1 /\ movie_index' = 0
    /\ UNCHANGED <<infoVars, args, links, movie_id, caller, link_i, fs, archive, jobVars, dlVars,
                   histVars, nomatch>>

\* dl_channel: one turn of "while len(movie_list_response) == MAX_MOVIE_RESPONSE
\* or movie_page_index == 1"; the listing ends within MaxPages pages
ChannelPage ==
    /\ pc = "channel_pages"
    /\ Len(movie_list_response) = MAX_MOVIE_RESPONSE \/ movie_page_index = 1
    /\ \/ Raise /\ UNCHANGED <<movie_list, movie_list_response, movie_page_index>>
       \/ /\ movie_list_response' \in Pages
          /\ movie_list' = Append(movie_list, movie_list_response')
          /\ movie_page_index = MaxPages => Len(movie_list_response') < MAX_MOVIE_RESPONSE
          /\ movie_page_index' = movie_page_index + 1
          /\ UNCHANGED pc
    /\ UNCHANGED <<infoVars, args, links, movie_id, caller, movie_index, link_i, fs, archive, log,
                   jobVars, dlVars, histVars, nomatch>>

\* dl_channel: the listing is over: the last page is appended to movie_list
\* once more and the loop over movie_list_response begins
ChannelListed ==
    /\ pc = "channel_pages"
    /\ ~(Len(movie_list_response) = MAX_MOVIE_RESPONSE \/ movie_page_index = 1)
    /\ movie_list' = Append(movie_list, movie_list_response)
    /\ pc' = "channel_loop"
    /\ movie_index' = 0
    /\ UNCHANGED <<infoVars, args, links, movie_id, caller, movie_list_response, movie_page_index,
                   link_i, fs, archive, log, jobVars, dlVars, histVars, nomatch>>

\* dl_channel: "for movie_index in range(len(movie_list_response))": dl_movie
\* is called with the next id of the page, or dl_channel returns
ChannelNext ==
    /\ pc = "channel_loop"
    /\ IF movie_index < Len(movie_list_response)
       THEN /\ movie_id' = movie_list_response[movie_index + 1]
            /\ movie_index' = movie_index + 1
            /\ caller' = "dl_channel"
            /\ pc' = "dl_movie"
            /\ log' = {}
            /\ JobReset /\ DlReset /\ HistReset
       ELSE /\ pc' = "main" /\ caller' = "main"
            /\ UNCHANGED <<movie_id, movie_index, log, jobVars, dlVars, histVars>>
    /\ UNCHANGED <<infoVars, args, links, movie_list, movie_list_response, movie_page_index,
                   link_i, fs, archive, nomatch>>

\* ---------------------------------------------------------------- dl_movie
\* dl_movie: "check if we can skip": movie_id in skip_ids
Recorded_Never(a, id, ids) == FALSE
Recorded(a, id, ids) == a.download_archive /\ id \in ids

ArchiveCheck ==
    /\ pc = "dl_movie"
    /\ IF Recorded(args, cur, archive)
       THEN log' = log \cup {"already recorded in archive"} /\ Return
       ELSE log' = log /\ pc' = "movie_info"
    /\ UNCHANGED <<infoVars, args, links, chanVars, link_i, fs, archive, jobVars, dlVars, histVars, nomatch>>

\* dl_movie: s.get(f"movies/{movie_id}") and its checks
MovieInfo ==
    /\ pc = "movie_info"
    /\ \/ Raise /\ UNCHANGED <<log, media_json>>
       \/ /\ log' = log \cup {"failed to get movie information"}
          /\ Return /\ UNCHANGED media_json
       \/ /\ media_json' \in BatchMedia
          /\ pc' = "derive" /\ UNCHANGED log
    /\ UNCHANGED <<infoVars, privVars, args, links, chanVars, link_i, fs, archive, base_url, view_res, media,
                   formats_list, downloading_format, dlVars, histVars, nomatch>>

\* derive_media_playlists: the choice of base_url up to the private lookup
DeriveBase ==
    /\ pc = "derive"
    /\ IF media_json["url_public"] # NoUrl
       THEN base_url' = media_json["url_public"] /\ pc' = "derive_fill" /\ log' = log
       ELSE IF args.ps
       THEN base_url' = NoUrl /\ pc' = "priv_detail"
            /\ log' = log \cup {"no public playlist found"}
       ELSE /\ base_url' = FirstUrl(media_json, 1)
            /\ pc' = "derive_fill"
            /\ log' = IF base_url' = NoUrl
                      THEN log \cup {"failed to get any playlist information"}
                      ELSE log
    /\ view_res' = FALSE
    /\ UNCHANGED <<infoVars, privVars, args, links, chanVars, link_i, fs, archive, media_json, media, formats_list,
                   downloading_format, dlVars, histVars, nomatch>>

\* a request more, counted up to MaxRequests
Count(n) == IF n < MaxRequests THEN n + 1 ELSE n
Logs(line) == log' = log \cup {line}
\* "elif not view_res": no free watch has been granted for this lookup
FreeWatchUntried_Always(v) == TRUE
FreeWatchUntried(v) == ~v

\* derive_media_playlists: one turn of "while True": the detail request and
\* what follows from its answer, up to the break or to the free-watch request
PrivDetail ==
    /\ pc = "priv_detail"
    /\ detail_requests' = Count(detail_requests)
    /\ \/ Raise /\ UNCHANGED <<base_url, log, pm_json>>
       \/ \E r \in DetailResponses :
            /\ pm_json' = r
            /\ IF ~r.ok \/ r.status < 0
               THEN /\ Logs("failed to get movie information")
                    /\ pc' = "derive_fill" /\ UNCHANGED base_url
               ELSE IF r.items = 0
               THEN /\ Logs("failed to get any playlist information")
                    /\ pc' = "derive_fill" /\ UNCHANGED base_url
               ELSE IF r.url # NoUrl
               THEN base_url' = r.url /\ pc' = "derive_fill" /\ UNCHANGED log
               ELSE IF FreeWatchUntried(view_res)
               THEN IF r.has_permission /\ r.remain > 0
                    THEN pc' = "priv_view" /\ UNCHANGED <<base_url, log>>
                    ELSE /\ Logs("failed to get movie access, no free watches available")
                         /\ pc' = "derive_fill" /\ UNCHANGED base_url
               ELSE /\ Logs("failed to get any playlist information")
                    /\ pc' = "derive_fill" /\ UNCHANGED base_url
    /\ UNCHANGED <<infoVars, args, links, chanVars, link_i, fs, archive, media_json, view_res, media,
                   formats_list, downloading_format, view_requests, dlVars, histVars, nomatch>>

\* derive_media_playlists: view_res = ps.post("users/me/views-limit", ...) and
\* what follows from its answer; a response is truthy when it is ok
PrivViewsLimit ==
    /\ pc = "priv_view"
    /\ view_requests' = Count(view_requests)
    /\ \/ Raise /\ UNCHANGED <<view_res, log>>
       \/ \E v \in ViewResponses :
            /\ view_res' = v.ok
            /\ IF ~v.ok
               THEN Logs("failed to request watch for movie") /\ pc' = "derive_fill"
               ELSE IF v.status < 0
               THEN /\ Logs("failed due to bad response from view limit endpoint")
                    /\ pc' = "derive_fill"
               ELSE IF v.has_permission
               THEN Logs("using free watch") /\ pc' = "priv_detail"
               ELSE IF v.remain > 0
               THEN Logs("failed to get movie access") /\ pc' = "derive_fill"
               ELSE /\ Logs("failed to get movie access, no free watches available")
                    /\ pc' = "derive_fill"
    /\ UNCHANGED <<infoVars, args, links, chanVars, link_i, fs, archive, media_json, base_url, media,
                   formats_list, downloading_format, pm_json, detail_requests, dlVars,
                   histVars, nomatch>>

\* derive_media_playlists from "if not base_url" to its return, and dl_movie's
\* "if not m_json['media']: return"
DeriveReturn ==
    /\ pc = "derive_fill"
    /\ media' = DerivePlaylists(media_json, base_url)
    /\ log' = IF base_url # NoUrl /\ ~OLD_PL_HOST(base_url) /\ PlMap(base_url) = <<>>
              THEN log \cup {"new playlist host found"} ELSE log
    /\ IF media' = NoMedia THEN Return ELSE pc' = "get_m3u8_info"
    /\ pm_json' = NoResponse
    /\ UNCHANGED <<infoVars, detail_requests, view_requests, args, links, chanVars, link_i, fs, archive, media_json, base_url, view_res,
                   formats_list, downloading_format, dlVars, histVars, nomatch>>

\* The link dl_movie hands to get_m3u8_info.
PlaylistLink(m) == IF "_url_playlist" \in DOMAIN m THEN m["_url_playlist"] ELSE m["url"]

\* dl_movie: formats_list = get_m3u8_info(...), whose requests.get raises on a
\* None link or a network error
GetM3u8Info ==
    /\ pc = "get_m3u8_info"
    /\ \/ Raise /\ UNCHANGED formats_list
       \/ /\ PlaylistLink(media) # NoUrl
          /\ formats_list' \in BatchFormats
          /\ pc' = "formats"
    /\ media_json' = NoMedia /\ base_url' = NoUrl /\ media' = NoMedia
    /\ PrivReset
    /\ UNCHANGED <<infoVars, args, links, chanVars, link_i, fs, archive, log, view_res,
                   downloading_format, dlVars, histVars, nomatch>>

\* dl_movie: "if args.list_formats"
ListOnly_Ignored(a) == FALSE
ListOnly(a) == a.list_formats

ListFormats ==
    /\ pc = "formats" /\ ListOnly(args)
    /\ log' = log \cup {"available formats"}
    /\ Return
    /\ UNCHANGED <<infoVars, args, links, chanVars, link_i, fs, archive, jobVars, dlVars, histVars, nomatch>>

\* dl_movie: the loop over formats_list
Select ==
    /\ pc = "formats" /\ ~ListOnly(args)
    /\ downloading_format' = SelectFormat(formats_list, args.format)
    /\ nomatch' = IF downloading_format' = 0 THEN nomatch \cup {link_i} ELSE nomatch
    /\ pc' = "dispatch"
    /\ UNCHANGED <<infoVars, privVars, args, links, chanVars, link_i, fs, archive, log, media_json, base_url, view_res,
                   media, formats_list, dlVars, histVars>>

\* dl_movie: "if not args.skip_download"
Dispatch ==
    /\ pc = "dispatch"
    /\ IF args.skip_download
       THEN log' = log \cup {"skipping download"} /\ Return
       ELSE IF downloading_format # 0
       THEN log' = log /\ pc' = "dl_m3u8_video"
       ELSE log' = log \cup {"could not find video format"} /\ Return
    /\ formats_list' = <<>>
    /\ UNCHANGED <<infoVars, privVars, args, links, chanVars, link_i, fs, archive, media_json, base_url, view_res,
                   media, downloading_format, dlVars, histVars, nomatch>>

\* ---------------------------------------------------------- dl_m3u8_video
SetFs(f) == fs' = [fs EXCEPT ![cur] = f]

\* dl_m3u8_video: the two "already downloaded" tests on the files f of the movie
Finished(f, skip_convert) == f.mp4 # "none" \/ (f.ts.exists /\ skip_convert)
HasTs_Ignored(f) == FALSE
HasTs(f) == f.ts.exists

\* dl_m3u8_video: "can't resume downloads (atm), so remove progress":
\* <name>.ts.tmp is removed if it exists, and then the artifacts
Discard_Keep(f) == f
Discard(f) == IF f.tmp.exists THEN [f EXCEPT !.tmp = NoFile, !.segs = NoSegs] ELSE f

\* dl_m3u8_video: "don't re-download" and the removal of earlier progress.
\* os.remove(seg_file) is given the name of the artifact without
\* args.directory: it removes the artifact when args.directory is the working
\* directory and raises FileNotFoundError when it is another one.
DlStart ==
    /\ pc = "dl_m3u8_video"
    /\ dl_entry' = [active |-> TRUE,
                    final |-> fs[cur].mp4 # "none" \/ fs[cur].ts.exists,
                    tmp |-> fs[cur].tmp, segs |-> fs[cur].segs]
    /\ requested' = {}
    /\ IF Finished(fs[cur], args.skip_convert)
       THEN log' = log \cup {"already downloaded"} /\ pc' = "archive" /\ UNCHANGED fs
       ELSE IF HasTs(fs[cur])
       THEN log' = log \cup {"already downloaded"} /\ pc' = "convert" /\ UNCHANGED fs
       ELSE /\ log' = log
            /\ \/ pc' = "manifest" /\ SetFs(Discard(fs[cur]))
               \/ /\ fs[cur].tmp.exists /\ fs[cur].segs # NoSegs
                  /\ SetFs([fs[cur] EXCEPT !.tmp = NoFile])
                  /\ Raise
    /\ UNCHANGED <<infoVars, args, links, chanVars, link_i, archive, jobVars, dlVars, manifest, exhausted,
                   outOfOrder, fifthOk, nomatch>>

\* dl_m3u8_video: requests.get(m3u8_link).text, ts_list, ordered_ts_list and
\* StreamDownloader.__init__.  The status of the response is not looked at:
\* the lines of the body of an error response are segments too.
FetchManifest ==
    /\ pc = "manifest"
    /\ requested' = requested \cup {"manifest"}
    /\ \/ Raise /\ UNCHANGED <<manifest, ts_list, log>>
       \/ \E st \in {"ok", "bad"}, n \in 0..MaxSegs :
            /\ manifest' = [status |-> st, lines |-> n]
            /\ ts_list' = Iota(n)
            /\ log' = log \cup {"writing video to"}
            /\ pc' = "run"
    /\ success' = TRUE /\ failed_list' = <<>> /\ completed' = {}
    /\ UNCHANGED <<infoVars, args, links, chanVars, link_i, fs, archive, jobVars, ts_count, workers, index,
                   stream_file, depth, dl_entry, exhausted, outOfOrder, fifthOk, nomatch>>

\* StreamDownloader.run up to the call of _download_segments: the sink is
\* opened in append mode and the consumer is spawned
RunStart ==
    /\ pc = "run"
    /\ SetFs([fs[cur] EXCEPT !.tmp = IF @.exists THEN @ ELSE FileOf(<<>>)])
    /\ stream_file' = "open"
    /\ ts_count' = Len(ts_list)
    /\ index' = 0
    /\ depth' = 0
    /\ pc' = "segments"
    /\ UNCHANGED <<infoVars, args, links, chanVars, link_i, archive, log, jobVars, ts_list, success,
                   failed_list, completed, workers, histVars, nomatch>>

\* Pool(10).map: the next item is handed to a worker when the pool has room
PoolHasRoom_Always(w) == TRUE
PoolHasRoom(w) == Cardinality(DOMAIN w) < PoolSize

PoolSpawn ==
    /\ pc = "segments" /\ ts_list # <<>>
    /\ PoolHasRoom(workers)
    /\ workers' = [i \in DOMAIN workers \cup {Head(ts_list)} |->
                      IF i \in DOMAIN workers THEN workers[i] ELSE 0]
    /\ ts_list' = Tail(ts_list)
    /\ UNCHANGED <<infoVars, args, links, chanVars, link_i, pc, fs, archive, log, jobVars, ts_count, success,
                   failed_list, completed, index, stream_file, depth, histVars, nomatch>>

Fetched == requested' = requested \cup {"segment"}
\* _download_worker returns: the greenlet leaves the pool
WorkerExit_Stay(i) == workers' = workers
WorkerExit(i) == workers' = [j \in DOMAIN workers \ {i} |-> workers[j]]

\* _download_worker: an attempt whose response is ok: the body is written to
\* the artifact and the index is published
WorkerFetchOk(i) ==
    /\ pc = "segments" /\ i \in DOMAIN workers
    /\ Fetched
    /\ SetFs([fs[cur] EXCEPT !.segs = [j \in DOMAIN @ \cup {i} |->
                                         IF j = i THEN Body(i) ELSE @[j]]])
    /\ completed' = completed \cup {i}
    /\ outOfOrder' = (outOfOrder \/ \E j \in 0..(i - 1) : j \notin completed)
    /\ fifthOk' = (fifthOk \/ workers[i] + 1 = MaxAttempts)
    /\ WorkerExit(i)
    /\ UNCHANGED <<infoVars, args, links, chanVars, link_i, pc, archive, log, jobVars, ts_list, ts_count,
                   success, failed_list, index, stream_file, depth, dl_entry, manifest,
                   exhausted, nomatch>>

\* _download_worker: a failed attempt that is not the last: the loop goes on,
\* after a response that is not ok as after an exception
WorkerRetry_StatusGivesUp(i, kind) ==
    IF kind = "status" THEN WorkerExit(i) ELSE workers' = [workers EXCEPT ![i] = @ + 1]
WorkerRetry(i, kind) == workers' = [workers EXCEPT ![i] = @ + 1]

WorkerFetchFail(i) ==
    /\ pc = "segments" /\ i \in DOMAIN workers
    /\ workers[i] + 1 < MaxAttempts
    /\ Fetched
    /\ \E kind \in {"status", "exception"} : WorkerRetry(i, kind)
    /\ UNCHANGED <<infoVars, args, links, chanVars, link_i, pc, fs, archive, log, jobVars, ts_list, ts_count,
                   success, failed_list, completed, index, stream_file, depth, dl_entry,
                   manifest, exhausted, outOfOrder, fifthOk, nomatch>>

\* _download_worker: the last attempt fails: self.success = False
GiveUp_KeepFlag(i) == success' = success /\ exhausted' = exhausted \cup {i}
GiveUp(i) == success' = FALSE /\ exhausted' = exhausted \cup {i}

WorkerExhaust(i) ==
    /\ pc = "segments" /\ i \in DOMAIN workers
    /\ workers[i] + 1 = MaxAttempts
    /\ Fetched
    /\ GiveUp(i)
    /\ WorkerExit(i)
    /\ UNCHANGED <<infoVars, args, links, chanVars, link_i, pc, fs, archive, log, jobVars, ts_list, ts_count,
                   failed_list, completed, index, stream_file, depth, dl_entry,
                   manifest, outOfOrder, fifthOk, nomatch>>

PassDone == pc = "segments" /\ ts_list = <<>> /\ DOMAIN workers = {}

\* _download_segments: Pool.map has returned and self.success is set
SegmentsReturn ==
    /\ PassDone /\ success
    /\ pc' = "join"
    /\ UNCHANGED <<infoVars, args, links, chanVars, link_i, fs, archive, log, jobVars, dlVars, histVars, nomatch>>

\* _download_segments: "if not self.success": the failed list becomes the
\* list of the recursive call
Redrive ==
    /\ PassDone /\ ~success
    /\ depth < MaxRecursion
    /\ ts_list' = failed_list
    /\ failed_list' = <<>>
    /\ depth' = depth + 1
    /\ UNCHANGED <<infoVars, args, links, chanVars, link_i, pc, fs, archive, log, jobVars, ts_count, success,
                   completed, workers, index, stream_file, histVars, nomatch>>

\* The recursion reaches the interpreter's limit: RecursionError, which
\* nothing catches
RecursionOverflow ==
    /\ PassDone /\ ~success
    /\ depth = MaxRecursion
    /\ Raise
    /\ UNCHANGED <<infoVars, args, links, chanVars, link_i, fs, archive, log, jobVars, dlVars, histVars, nomatch>>

ConsumerRuns == pc \in {"segments", "join"} /\ stream_file = "open"

\* _append_file: the next index is published: its artifact is appended to
\* the sink and removed
NextIndex_AnyPublished(k) == k \in completed /\ k \in DOMAIN fs[cur].segs
NextIndex(k) == k = index /\ k \in completed
\* index += 1
Advance_Skip(i) == i + 2
Advance(i) == i + 1
\* os.remove(os.path.join(args.directory, segment_filename))
Remove_Keep(segs, k) == segs
Remove(segs, k) == [j \in DOMAIN segs \ {k} |-> segs[j]]
\* while index < self.ts_count
SinkDone_Strict(i, n) == i > n
SinkDone(i, n) == i >= n

ConsumerAppend ==
    /\ ConsumerRuns /\ ~SinkDone(index, ts_count)
    /\ \E k \in 0..(ts_count - 1) :
         /\ NextIndex(k)
         /\ SetFs([fs[cur] EXCEPT !.tmp.data = Append(@, fs[cur].segs[k]),
                                  !.segs = Remove(@, k)])
    /\ index' = Advance(index)
    /\ UNCHANGED <<infoVars, args, links, chanVars, link_i, pc, archive, log, jobVars, ts_list, ts_count,
                   success, failed_list, completed, workers, stream_file, depth,
                   histVars, nomatch>>

\* _append_file: the loop ends and the sink is closed
ConsumerClose ==
    /\ ConsumerRuns /\ SinkDone(index, ts_count)
    /\ stream_file' = "closed"
    /\ UNCHANGED <<infoVars, args, links, chanVars, link_i, pc, fs, archive, log, jobVars, ts_list, ts_count,
                   success, failed_list, completed, workers, index, depth, histVars, nomatch>>

\* StreamDownloader.run: join_thread.join() returns
RunJoin ==
    /\ pc = "join" /\ stream_file = "closed"
    /\ pc' = "post_run"
    /\ UNCHANGED <<infoVars, args, links, chanVars, link_i, fs, archive, log, jobVars, dlVars, histVars, nomatch>>

\* dl_m3u8_video: "if stream_downloader.success"
Promote(ok) == ok

PostRun ==
    /\ pc = "post_run"
    /\ IF Promote(success)
       THEN /\ SetFs([fs[cur] EXCEPT !.ts = fs[cur].tmp, !.tmp = NoFile])
            /\ pc' = IF args.skip_convert THEN "archive" ELSE "convert"
            /\ log' = log
       ELSE /\ log' = log \cup {"failed to download"}
            /\ Return /\ UNCHANGED fs
    /\ UNCHANGED <<infoVars, args, links, chanVars, link_i, archive, jobVars, dlVars, histVars, nomatch>>

\* mpeg_convert: ffmpeg cannot be run (the handler then reads stdout, which
\* was never bound), or it runs and leaves a whole .mp4, a partial one or none
Convert ==
    /\ pc = "convert"
    /\ \/ /\ log' = log \cup {"converting video", "failure in executing ffmpeg"}
          /\ Raise /\ UNCHANGED fs
       \/ \E out \in {"full", "partial", "none"} :
            /\ SetFs([fs[cur] EXCEPT !.mp4 = out,
                                     !.ts = IF out # "none" THEN NoFile ELSE @])
            /\ pc' = "archive"
            /\ log' = log \cup {"converting video"}
    /\ UNCHANGED <<infoVars, args, links, chanVars, link_i, archive, jobVars, dlVars, histVars, nomatch>>

\* dl_m3u8_video: "if args.download_archive"
Archive ==
    /\ pc = "archive"
    /\ archive' = IF args.download_archive THEN archive \cup {cur} ELSE archive
    /\ Return
    /\ UNCHANGED <<infoVars, args, links, chanVars, link_i, fs, log, jobVars, dlVars, histVars, nomatch>>

\* ---------------------------------------------------------- specification
Next ==
    \/ MainNext \/ MainExit
    \/ ChannelStart \/ ChannelPage \/ ChannelListed \/ ChannelNext
    \/ ArchiveCheck \/ MovieInfo
    \/ DeriveBase \/ PrivDetail \/ PrivViewsLimit \/ DeriveReturn
    \/ GetM3u8Info \/ ListFormats \/ Select \/ Dispatch
    \/ DlStart \/ FetchManifest \/ RunStart
    \/ PoolSpawn
    \/ \E i \in 0..(MaxSegs - 1) : WorkerFetchOk(i) \/ WorkerFetchFail(i) \/ WorkerExhaust(i)
    \/ SegmentsReturn \/ Redrive \/ RecursionOverflow
    \/ ConsumerAppend \/ ConsumerClose \/ RunJoin
    \/ PostRun \/ Convert \/ Archive

Spec == Init /\ [][Next]_vars

\* The format selection alone: dl_movie at its loop over formats_list, for
\* every rendition list of up to MaxFormats entries and every selector.
InitSelect ==
    /\ args \in {a \in AllArgs : ~a.list_formats /\ ~a.skip_download /\ ~a.skip_convert
                                 /\ ~a.download_archive /\ ~a.ps}
    /\ links = <<"m1">>
    /\ link_i = 1
    /\ movie_id = "m1" /\ caller = "main" /\ movie_list = <<>> /\ movie_list_response = <<>>
    /\ movie_page_index = 1 /\ movie_index = 0
    /\ pc = "formats"
    /\ fs = [m \in Movies |-> CleanDir]
    /\ archive = {}
    /\ log = {}
    /\ nomatch = {}
    /\ media_json = NoMedia /\ base_url = NoUrl /\ view_res = FALSE /\ media = NoMedia
    /\ formats_list \in AllFormats
    /\ downloading_format = 0
    /\ PrivInit
    /\ DlInit /\ HistInit /\ InfoInit

NextSelect == Select \/ Dispatch

SpecSelect == InitSelect /\ [][NextSelect]_vars

\* The playlist derivation alone: dl_movie at its call of
\* derive_media_playlists, for every "media" object of AllMedia, with and
\* without a private session.
InitDerive ==
    /\ args \in {a \in AllArgs : a.format = "best" /\ ~a.list_formats /\ ~a.skip_download
                                 /\ ~a.skip_convert /\ ~a.download_archive}
    /\ links = <<"m1">>
    /\ link_i = 1
    /\ movie_id = "m1" /\ caller = "main" /\ movie_list = <<>> /\ movie_list_response = <<>>
    /\ movie_page_index = 1 /\ movie_index = 0
    /\ pc = "derive"
    /\ fs = [m \in Movies |-> CleanDir]
    /\ archive = {}
    /\ log = {}
    /\ nomatch = {}
    /\ media_json \in AllMedia
    /\ base_url = NoUrl /\ view_res = FALSE /\ media = NoMedia
    /\ formats_list = <<>> /\ downloading_format = 0
    /\ PrivInit
    /\ DlInit /\ HistInit /\ InfoInit

NextDerive == DeriveBase \/ PrivDetail \/ PrivViewsLimit \/ DeriveReturn

SpecDerive == InitDerive /\ [][NextDerive]_vars

\* StreamDownloader.run alone: dl_m3u8_video at its call of run, for a
\* manifest of n segment lines.
InitRunOf(n) ==
    /\ args \in {a \in AllArgs : a.format = "best" /\ ~a.list_formats /\ ~a.skip_download
                                 /\ a.skip_convert /\ ~a.download_archive /\ ~a.ps}
    /\ links = <<"m1">>
    /\ link_i = 1
    /\ movie_id = "m1" /\ caller = "main" /\ movie_list = <<>> /\ movie_list_response = <<>>
    /\ movie_page_index = 1 /\ movie_index = 0
    /\ pc = "run"
    /\ fs = [m \in Movies |-> CleanDir]
    /\ archive = {}
    /\ log = {"writing video to"}
    /\ nomatch = {}
    /\ JobInit /\ InfoInit
    /\ ts_list = Iota(n) /\ ts_count = 0 /\ success = TRUE /\ failed_list = <<>>
    /\ completed = {} /\ workers = <<>> /\ index = 0 /\ stream_file = "none" /\ depth = 0
    /\ requested = {"manifest"}
    /\ dl_entry = [active |-> TRUE, final |-> FALSE, tmp |-> NoFile, segs |-> NoSegs]
    /\ manifest = [status |-> "ok", lines |-> n]
    /\ exhausted = {} /\ outOfOrder = FALSE /\ fifthOk = FALSE

\* dl_m3u8_video alone: dl_movie at its call of dl_m3u8_video for the movie
\* "m1", for everything an earlier run can have left in args.directory.
InitJob ==
    /\ args \in {a \in AllArgs : a.format = "best" /\ ~a.list_formats /\ ~a.skip_download
                                 /\ ~a.download_archive /\ ~a.ps}
    /\ links = <<"m1">>
    /\ link_i = 1
    /\ movie_id = "m1" /\ caller = "main" /\ movie_list = <<>> /\ movie_list_response = <<>>
    /\ movie_page_index = 1 /\ movie_index = 0
    /\ pc = "dl_m3u8_video"
    /\ fs \in {f \in [Movies -> LeftBehind] : f["m2"] = CleanDir}
    /\ archive = {}
    /\ log = {}
    /\ nomatch = {}
    /\ media_json = NoMedia /\ base_url = NoUrl /\ view_res = FALSE /\ media = NoMedia
    /\ formats_list = <<>> /\ downloading_format = 1
    /\ PrivInit
    /\ DlInit /\ HistInit /\ InfoInit
NextJob ==
    \/ DlStart \/ FetchManifest \/ RunStart
    \/ PoolSpawn
    \/ \E i \in 0..(MaxSegs - 1) : WorkerFetchOk(i) \/ WorkerFetchFail(i) \/ WorkerExhaust(i)
    \/ SegmentsReturn \/ Redrive \/ RecursionOverflow
    \/ ConsumerAppend \/ ConsumerClose \/ RunJoin
    \/ PostRun \/ Convert \/ Archive
SpecJob == InitJob /\ [][NextJob]_vars

\* The pool at work: a manifest of PoolSegs lines, more than the pool is
\* wide; the fetches of segment 0 may fail, the others succeed at once.
InitPool == InitRunOf(PoolSegs)
NextPool ==
    \/ RunStart \/ PoolSpawn
    \/ \E i \in 0..(PoolSegs - 1) : WorkerFetchOk(i)
    \/ WorkerFetchFail(0) \/ WorkerExhaust(0)
    \/ SegmentsReturn \/ Redrive \/ RecursionOverflow
    \/ ConsumerAppend \/ ConsumerClose \/ RunJoin
SpecPool == InitPool /\ [][NextPool]_vars

\* A run in which no segment fails all its attempts, under the scheduling of
\* gevent: every request is answered and every greenlet that can run does.
InitLive == \E n \in 0..MaxSegs : InitRunOf(n)
NextLive ==
    \/ RunStart \/ PoolSpawn
    \/ \E i \in 0..(MaxSegs - 1) : WorkerFetchOk(i) \/ WorkerFetchFail(i)
    \/ SegmentsReturn
    \/ ConsumerAppend \/ ConsumerClose \/ RunJoin
SpecLive ==
    /\ InitLive /\ [][NextLive]_vars
    /\ WF_vars(RunStart) /\ WF_vars(PoolSpawn) /\ WF_vars(SegmentsReturn)
    /\ WF_vars(ConsumerAppend) /\ WF_vars(ConsumerClose) /\ WF_vars(RunJoin)
    /\ \A i \in 0..(MaxSegs - 1) : WF_vars(WorkerFetchOk(i) \/ WorkerFetchFail(i))

\* get_m3u8_info alone: the loop over the lines of a master playlist, for
\* every playlist of up to MaxEntries renditions.
InfoLoop ==
    /\ pc = "m3u8_lines" /\ line_i < Len(m3u8_text)
    /\ LET st == InfoLine([media_details |-> media_details,
                           format_details |-> format_details,
                           m3u8_info |-> m3u8_info], m3u8_text[line_i + 1])
       IN  /\ media_details' = st.media_details
           /\ format_details' = st.format_details
           /\ m3u8_info' = st.m3u8_info
    /\ line_i' = line_i + 1
    /\ UNCHANGED <<args, links, chanVars, link_i, pc, fs, archive, log, jobVars, dlVars,
                   histVars, nomatch, m3u8_text>>

InfoReturn ==
    /\ pc = "m3u8_lines" /\ line_i = Len(m3u8_text)
    /\ pc' = "m3u8_done"
    /\ UNCHANGED <<infoVars, args, links, chanVars, link_i, fs, archive, log, jobVars,
                   dlVars, histVars, nomatch>>

InitInfoOf(texts) ==
    /\ args \in {a \in AllArgs : a.format = "best" /\ ~a.list_formats /\ ~a.skip_download
                                 /\ ~a.skip_convert /\ ~a.download_archive /\ ~a.ps}
    /\ links = <<"m1">>
    /\ link_i = 1
    /\ movie_id = "m1" /\ caller = "main" /\ movie_list = <<>> /\ movie_list_response = <<>>
    /\ movie_page_index = 1 /\ movie_index = 0
    /\ pc = "m3u8_lines"
    /\ fs = [m \in Movies |-> CleanDir]
    /\ archive = {}
    /\ log = {}
    /\ nomatch = {}
    /\ JobInit /\ DlInit /\ HistInit
    /\ m3u8_text \in texts
    /\ line_i = 0 /\ media_details = NoDetails /\ format_details = NoDetails
    /\ m3u8_info = <<>>

InitInfo == InitInfoOf(Playlists)
NextInfo == InfoLoop \/ InfoReturn
SpecInfo == InitInfo /\ [][NextInfo]_vars

\* parse_m3u8_attributes alone: get_m3u8_info on one tag line, for every tag
\* line of up to MaxAttrs attributes.
InitParse == InitInfoOf({<<l>> : l \in TagLines})
NextParse == InfoLoop \/ InfoReturn
SpecParse == InitParse /\ [][NextParse]_vars

\* ----------------------------------------------------------------- claims

\* C1: when StreamDownloader.run returns, the sink holds exactly the bodies of
\* the segments 0..N-1 of the manifest's N lines, in increasing index order,
\* each once, whatever the order in which the fetches completed.
C1_ReorderInvariance ==
    pc = "post_run" =>
        /\ ts_count = manifest.lines
        /\ fs[cur].tmp = FileOf(Bodies(manifest.lines))
C1_Witness ==
    /\ pc = "post_run" /\ manifest.lines >= 2 /\ outOfOrder
    /\ fs[cur].tmp.data = <<Body(0), Body(1)>>

\* C2: once a segment has failed all its attempts, the success flag of the job
\* is cleared and <name>.ts does not exist in any later state of the job.
C2_ExhaustedNeverPromoted ==
    exhausted # {} => (~success /\ ~fs[cur].ts.exists)
C2_Witness ==
    /\ exhausted # {} /\ completed # {} /\ pc = "crashed"
    /\ fs[cur].tmp.exists

\* C3: a worker makes at most MaxAttempts fetches of its segment; a failed
\* fetch of either kind that is not the last leaves it in the pool for one more;
\* it leaves the pool only by publishing its segment, which does not clear the
\* success flag, or by failing its last attempt; a published segment has no
\* worker again.
C3_BoundedRetry ==
    [][ /\ \A i \in DOMAIN workers :
             /\ workers[i] + 1 <= MaxAttempts
             /\ i \in DOMAIN workers' => workers'[i] \in {workers[i], workers[i] + 1}
             /\ i \notin DOMAIN workers' =>
                   \/ i \in completed' /\ i \notin exhausted' /\ success' = success
                   \/ workers[i] + 1 = MaxAttempts /\ i \in exhausted' /\ i \notin completed'
        /\ completed \cap DOMAIN workers' = {}
      ]_vars
C3_Witness ==
    /\ fifthOk /\ success /\ exhausted = {}
    /\ completed = 0..(ts_count - 1) /\ ts_count >= 1
    /\ pc = "post_run"

\* C4: when a segment has exhausted its attempts the job ends and returns, and
\* the batch goes on: such a job never takes the whole program down.
C4_FailedJobIsSkipped ==
    exhausted # {} => pc # "crashed"

\* C5: if <name>.mp4 or <name>.ts exists when dl_m3u8_video starts, the call
\* makes no network request, leaves <name>.ts.tmp and the segment artifacts as
\* they were and logs "already downloaded".
C5_AlreadyDownloaded ==
    (dl_entry.active /\ dl_entry.final) =>
        /\ requested = {}
        /\ fs[cur].tmp = dl_entry.tmp
        /\ fs[cur].segs = dl_entry.segs
        /\ "already downloaded" \in log
        /\ stream_file = "none"
C5_Witness ==
    /\ dl_entry.active /\ dl_entry.final
    /\ link_i = 2 /\ links[1] = links[2]
    /\ pc = "main"

\* C6: after a rendition manifest whose fetch did not succeed, no segment is
\* fetched and no output is promoted to <name>.ts.
C6_BadManifestAborts ==
    manifest.status = "bad" => ("segment" \notin requested /\ ~fs[cur].ts.exists)

\* C7: with the selector "best" and a rendition named "Source" in the list,
\* the first such rendition in manifest order is selected, whatever its place
\* and whatever the BANDWIDTH of the others.
IsSource(formats, i) == formats[i].NAME = "Source"
C7_BestPrefersSource ==
    (pc = "dispatch" /\ args.format = "best"
        /\ \E i \in 1..Len(formats_list) : IsSource(formats_list, i)) =>
      \E i \in 1..Len(formats_list) :
        /\ IsSource(formats_list, i)
        /\ \A j \in 1..(i - 1) : ~IsSource(formats_list, j)
        /\ downloading_format = formats_list[i].location
C7_Witness ==
    /\ pc = "dispatch" /\ args.format = "best" /\ Len(formats_list) = 3
    /\ formats_list[1].NAME = "720p" /\ formats_list[1].BANDWIDTH = 1200
    /\ formats_list[2].NAME = "Source" /\ formats_list[2].BANDWIDTH = 300
    /\ formats_list[3].NAME = "Source" /\ formats_list[3].BANDWIDTH = 1200
    /\ downloading_format = 2

\* C8 as stated: with a selector other than "best" the first rendition whose
\* NAME or GROUP-ID equals the selector is selected; if none matches, no format
\* is selected, dl_m3u8_video is not called for the job, the job logs "could
\* not find video format" and the batch goes on.
Matches(formats, i, selector) == selector \in {formats[i].NAME, formats[i].GROUPID}
FirstMatch(formats, selector) ==
    IF \E i \in 1..Len(formats) : Matches(formats, i, selector)
    THEN formats[CHOOSE i \in 1..Len(formats) :
                    /\ Matches(formats, i, selector)
                    /\ \A j \in 1..(i - 1) : ~Matches(formats, j, selector)].location
    ELSE 0
ExactSelection ==
    (pc = "dispatch" /\ args.format # "best") =>
        downloading_format = FirstMatch(formats_list, args.format)
NoMatchIsSkipped ==
    (args.format # "best" /\ link_i \in nomatch) =>
        /\ downloading_format = 0
        /\ pc \in {"dispatch", "main", "exit"}
        /\ ~dl_entry.active /\ requested = {} /\ stream_file = "none"
C8_Original ==
    /\ ExactSelection
    /\ NoMatchIsSkipped
    /\ (args.format # "best" /\ link_i \in nomatch /\ pc \in {"main", "exit"}) =>
          "could not find video format" \in log

\* C8 as amended: the same, the error being logged when --skip-download is not
\* set; with --skip-download the job logs "skipping download" instead.
C8_ExactSelector ==
    /\ ExactSelection
    /\ NoMatchIsSkipped
    /\ (args.format # "best" /\ link_i \in nomatch /\ pc \in {"main", "exit"}) =>
          IF args.skip_download
          THEN "skipping download" \in log /\ "could not find video format" \notin log
          ELSE "could not find video format" \in log
C8_Witness ==
    /\ args.format # "best" /\ ~args.skip_download
    /\ 1 \in nomatch /\ link_i = 2
    /\ pc = "get_m3u8_info"

\* C9 as stated: every entry of the input mapping that is not empty has the
\* same value in the mapping derive_media_playlists returns, whatever the
\* hosting pattern of the base URL.
Returned == pc = "get_m3u8_info"
Kept(k) == media_json[k] # NoUrl => (k \in DOMAIN media /\ media[k] = media_json[k])
C9_Original ==
    Returned => \A k \in DOMAIN media_json : Kept(k)

\* C9 as amended: that holds for a base URL of the current or of the game
\* hosting; for a base URL of the legacy hosting every entry but "url" is
\* kept and "url" is set to the base URL.
C9_NeverOverwritten ==
    Returned =>
        IF OLD_PL_HOST(base_url)
        THEN /\ \A k \in DOMAIN media_json \ {"url"} : Kept(k)
             /\ media["url"] = base_url
             /\ DOMAIN media = DOMAIN media_json
        ELSE /\ \A k \in DOMAIN media_json : Kept(k)
             /\ \A k \in DOMAIN media :
                  \/ k \in DOMAIN media_json /\ media[k] = media_json[k]
                  \/ Get(media_json, k) = NoUrl /\ media[k].host = base_url.host
C9_Witness ==
    /\ Returned /\ NEW_PL_HOST(base_url)
    /\ media_json["url_audio"] = SiteUrl("url_audio") /\ media["url_audio"] = SiteUrl("url_audio")
    /\ media_json["url_source"] = NoUrl /\ media["url_source"] # NoUrl
    /\ media_json["url"] = SiteUrl("url") /\ media["url"] = SiteUrl("url")

\* C10: when the base URL matches no known hosting pattern, the job goes on
\* with the base URL alone: its playlist is resolved from the base URL.
UnknownHost(u) == u # NoUrl /\ ~OLD_PL_HOST(u) /\ PlMap(u) = <<>>
C10_UnknownHostFallsBack ==
    (UnknownHost(base_url) /\ pc # "derive_fill") =>
        (pc = "get_m3u8_info" /\ PlaylistLink(media) = base_url)

\* C11: when the remux fails (ffmpeg cannot be run, or it ends without a whole
\* <name>.mp4, a partial one included), <name>.ts still exists after
\* mpeg_convert.
C11_TsKeptOnFailedRemux ==
    ("converting video" \in log /\ pc \in {"archive", "crashed"} /\ fs[cur].mp4 # "full") =>
        fs[cur].ts.exists

\* C12 as stated: with --list-formats nothing of the download is done (no
\* call of dl_m3u8_video, no request, no file and no archive entry made), and
\* every link whose resolution did not fail ends with the list of formats
\* reported, a channel link as a video link.
ResolutionFailures == {
    "already recorded in archive", "failed to get movie information",
    "failed to get any playlist information", "no public playlist found",
    "failed to get movie access, no free watches available",
    "failed to request watch for movie", "failed to get movie access",
    "new playlist host found", "failed to get channel information",
    "failed due to bad response from view limit endpoint" }
NothingDownloaded ==
    /\ fs' = fs /\ archive' = archive
    /\ pc' \notin {"dl_m3u8_video", "manifest", "run", "segments", "join", "post_run",
                   "convert", "archive"}
    /\ ~dl_entry'.active /\ requested' = {} /\ stream_file' = "none"
LinkEnds == pc \notin {"main", "channel_loop"} /\ pc' \in {"main", "channel_loop"}
C12_Original ==
    [][ args.list_formats =>
          /\ NothingDownloaded
          /\ (LinkEnds /\ log' \cap ResolutionFailures = {}) => "available formats" \in log'
      ]_vars

\* C12 as amended: the same for a video link; a channel link is refused with
\* "cannot use argument --list-formats with channel link": nothing is
\* resolved or reported for it, and nothing is downloaded either.
C12_ListFormatsOnly ==
    [][ args.list_formats =>
          /\ NothingDownloaded
          /\ (LinkEnds /\ log' \cap ResolutionFailures = {}) =>
                IF pc = "dl_channel"
                THEN log' = {"cannot use argument --list-formats with channel link"}
                ELSE "available formats" \in log' /\ pc = "formats"
          /\ pc = "formats" => (pc' = "main" /\ "available formats" \in log')
          /\ pc = "dl_channel" => pc' = "main"
      ]_vars
C12_Witness ==
    /\ args.list_formats /\ links = <<"c1", "m2">> /\ link_i = 2
    /\ pc = "main" /\ "available formats" \in log

\* C13 as stated: a rendition with format details and no media details gets
\* the name "Source" if its location contains "source"; otherwise the
\* vertical part of RESOLUTION followed by "p" if RESOLUTION is given;
\* otherwise the first path segment of its location without its extension.
IsScheme(piece) == piece # <<>> /\ piece[Len(piece)] = "https:"
\* the path segments of a location: those of a relative one, or those after
\* the host of an absolute one
PathSegments(line) ==
    LET pieces == Split(line, "/")
    IN  IF IsScheme(pieces[1]) THEN SubSeq(pieces, 4, Len(pieces)) ELSE pieces
\* a file name without its extension: the text before its last "."
WithoutExtension(name) ==
    IF "." \in Range(name)
    THEN SubSeq(name, 1, Max({i \in 1..Len(name) : name[i] = "."}) - 1)
    ELSE name
VerticalP(format) == Append(Split(format[<<"RESOLUTION">>], "x")[2], "p")
NameAsStated(line, format) ==
    IF "source" \in Range(line) THEN <<"Source">>
    ELSE IF <<"RESOLUTION">> \in DOMAIN format THEN VerticalP(format)
    ELSE WithoutExtension(PathSegments(line)[1])
\* the text of the line before its first "/", cut at its first "."
NameAsCoded(line, format) ==
    IF "source" \in Range(line) THEN <<"Source">>
    ELSE IF <<"RESOLUTION">> \in DOMAIN format THEN VerticalP(format)
    ELSE LET head == IF "/" \in Range(line) THEN SubSeq(line, 1, Find(line, "/", 1) - 1)
                     ELSE line
         IN  IF "." \in Range(head) THEN SubSeq(head, 1, Find(head, ".", 1) - 1) ELSE head
\* the loop emits a rendition for which it had no media details
EmitsSynthesized ==
    /\ Len(m3u8_info') = Len(m3u8_info) + 1
    /\ media_details = NoDetails
C13_Original ==
    [][ EmitsSynthesized =>
          m3u8_info'[Len(m3u8_info')].media[<<"NAME">>]
            = NameAsStated(m3u8_text[line_i'], format_details)
      ]_vars

\* C13 as amended: the same priority; the last rule gives the text of the
\* location line before its first "/", cut at its first ".".
C13_SynthesizedName ==
    [][ EmitsSynthesized =>
          /\ format_details # NoDetails
          /\ m3u8_info'[Len(m3u8_info')].media
               = [k \in {<<"NAME">>, <<"GROUP-ID">>, <<"TYPE">>} |->
                    IF k = <<"NAME">>
                    THEN NameAsCoded(m3u8_text[line_i'], format_details)
                    ELSE <<>>]
      ]_vars
C13_Witness ==
    /\ pc = "m3u8_done" /\ Len(m3u8_info) = 2
    /\ m3u8_info[1].media[<<"NAME">>] = <<"Source">>
    /\ m3u8_info[1].format[<<"RESOLUTION">>] = <<"640", "x", "360">>
    /\ m3u8_info[1].media[<<"TYPE">>] = <<>>
    /\ m3u8_info[2].media[<<"NAME">>] = <<"low">>
    /\ m3u8_info[2].location = <<"low", ".", "v2", ".", "m3u8">>

\* C14 as stated: for a tag line #TAG:K1=V1,K2="V2",... parse_m3u8_attributes
\* returns one entry per attribute, its value without the quotes; a comma
\* inside quotes does not end the value.
Parsed == IF StartsWith(m3u8_text[1], "#EXT-X-MEDIA:") THEN media_details ELSE format_details
ValueOf(as, k) == as[CHOOSE i \in 1..Len(as) : as[i].key = k].value
OneEntryPerAttribute(as) ==
    [k \in {<<as[i].key>> : i \in 1..Len(as)} |-> ValueOf(as, k[1])]
C14_Original ==
    line_i = 1 =>
        \A tag \in {"#EXT-X-MEDIA:", "#EXT-X-STREAM-INF:"}, as \in AttrLists :
            m3u8_text[1] = TagLine(tag, as) => Parsed = OneEntryPerAttribute(as)

\* C14 as amended: one entry per attribute whose value is not empty; an
\* attribute written with an empty quoted value (K="") gets no entry.
NonEmpty(as) == SelectSeq(as, LAMBDA a : a.value # <<>>)
C14_QuotedValues ==
    line_i = 1 =>
        \A tag \in {"#EXT-X-MEDIA:", "#EXT-X-STREAM-INF:"}, as \in AttrLists :
            m3u8_text[1] = TagLine(tag, as) =>
                Parsed = OneEntryPerAttribute(NonEmpty(as))
C14_Witness ==
    /\ line_i = 1
    /\ m3u8_text[1] = TagLine("#EXT-X-STREAM-INF:",
            <<Plain("BANDWIDTH", <<"800000">>),
              InQuotes("CODECS", <<"avc1.4d401e", ",", "mp4a.40.2">>)>>)
    /\ DOMAIN format_details = {<<"BANDWIDTH">>, <<"CODECS">>}
    /\ format_details[<<"CODECS">>] = <<"avc1.4d401e", ",", "mp4a.40.2">>
    /\ format_details[<<"BANDWIDTH">>] = <<"800000">>

\* C15: when a pass ends with segments that failed all their attempts, the
\* list of the next pass is made of exactly those segments.
C15_RedriveQueue ==
    [][ depth' = depth + 1 => Range(ts_list') = exhausted ]_vars

\* C16: _download_segments never calls itself on an empty list: the re-drive
\* stops when nothing is left to fetch.
C16_NoRedriveOnEmptyQueue ==
    ~(pc = "segments" /\ depth > 0 /\ ts_list = <<>> /\ DOMAIN workers = {} /\ ~success)

\* C17: while the consumer runs and after it, the sink holds the bodies of the
\* segments 0..index-1 in order; index goes from k to k+1 only, and only when
\* segment k is published.
C17_InOrderSink ==
    [][ /\ pc' \in {"segments", "join", "post_run"} =>
              fs'[cur'].tmp = FileOf(Bodies(index'))
        /\ (index' # index /\ pc' \in {"segments", "join"}) =>
              \/ pc = "run" /\ index' = 0
              \/ index' = index + 1 /\ index \in completed
      ]_vars
C17_Witness ==
    /\ pc = "segments" /\ outOfOrder /\ index = 1 /\ ts_count = 2
    /\ fs[cur].tmp.data = <<Body(0)>>
    /\ DOMAIN fs[cur].segs = {1}

\* C18: the segment artifacts on disk at any moment are at most as many as
\* the pool is wide, however many segments the stream has.
C18_ArtifactsBounded ==
    Cardinality(DOMAIN fs[cur].segs) <= PoolSize

\* C19: if no segment fails all its attempts, StreamDownloader.run ends, for
\* every number of segments: the workers are done, the consumer has appended
\* every segment and closed the sink, and the success flag is still set.
C19_RunTerminates ==
    (pc = "run") ~> /\ pc = "post_run" /\ success
                    /\ DOMAIN workers = {} /\ ts_list = <<>>
                    /\ index = ts_count /\ stream_file = "closed"
                    /\ fs[cur].tmp = FileOf(Bodies(manifest.lines))
C19_Witness ==
    /\ pc = "post_run" /\ success /\ ts_count = MaxSegs /\ fifthOk
    /\ stream_file = "closed"

\* C20: at most PoolSize workers run _download_worker at any moment.
C20_PoolWidth ==
    Cardinality(DOMAIN workers) <= PoolSize
C20_Witness ==
    /\ pc = "segments" /\ Cardinality(DOMAIN workers) = PoolSize
    /\ ts_list # <<>> /\ completed = {}

\* C21: over a whole job, re-drive rounds included, every index of the
\* manifest is held in exactly one place (queued once, with one worker,
\* published, or given up); an index is published by the worker that holds it,
\* which then leaves the pool, and never again; its artifact is appended to the
\* sink and removed in one step of the consumer, at the consumer's index only,
\* and the artifact of a consumed index never comes back.
Holders(i, queue, pool, done, lost) ==
    Cardinality({p \in 1..Len(queue) : queue[p] = i})
      + (IF i \in DOMAIN pool THEN 1 ELSE 0)
      + (IF i \in done THEN 1 ELSE 0)
      + (IF i \in lost THEN 1 ELSE 0)
C21_PublishedOnceConsumedOnce ==
    [][ pc' \in {"segments", "join", "post_run"} =>
          /\ \A i \in 0..(ts_count' - 1) :
                Holders(i, ts_list', workers', completed', exhausted') = 1
          /\ \A i \in completed' \ completed :
                /\ i \in DOMAIN workers /\ i \notin DOMAIN workers'
                /\ fs'[cur'].segs[i] = Body(i)
          /\ completed \subseteq completed' \/ pc = "run"
          /\ \A k \in DOMAIN fs'[cur'].segs :
                fs'[cur'].segs[k] = Body(k) => (k \in completed' /\ k >= index')
          /\ (index' # index /\ pc # "run") =>
                /\ index' = index + 1
                /\ index \in completed
                /\ index \in DOMAIN fs[cur].segs /\ index \notin DOMAIN fs'[cur'].segs
                /\ fs'[cur'].tmp.data = Append(fs[cur].tmp.data, Body(index))
      ]_vars
C21_Witness ==
    /\ pc = "post_run" /\ ts_count = 2 /\ completed = {0, 1} /\ index = 2
    /\ outOfOrder /\ ~fifthOk
    /\ DOMAIN fs[cur].segs = {} /\ fs[cur].tmp.data = <<Body(0), Body(1)>>

\* C22: when a download starts (neither <name>.mp4 nor <name>.ts exists),
\* <name>.ts.tmp does not exist when the sink is opened, whatever an earlier
\* run left; the sink is empty until segment 0 is appended, and neither the
\* sink nor the promoted <name>.ts ever holds bytes of an earlier run, also
\* when artifacts of an earlier run are still on disk.
Started == dl_entry.active /\ ~dl_entry.final
C22_StaleSinkDiscarded ==
    Started =>
        /\ pc \in {"manifest", "run"} => ~fs[cur].tmp.exists
        /\ pc \in {"segments", "join", "post_run"} =>
              /\ fs[cur].tmp.exists /\ Old \notin Range(fs[cur].tmp.data)
              /\ index = 0 => fs[cur].tmp.data = <<>>
        /\ fs[cur].ts.exists =>
              /\ Old \notin Range(fs[cur].ts.data)
              /\ fs[cur].ts.data = Bodies(manifest.lines)
C22_Witness ==
    /\ Started /\ dl_entry.tmp = FileOf(<<Old>>) /\ dl_entry.segs # NoSegs
    /\ pc = "main" /\ fs[cur].ts = FileOf(<<Body(0), Body(1)>>)

\* C23: while the job runs an artifact leaves the disk only in the step of the
\* consumer that appends its bytes to the sink, and it is gone when the
\* consumer's index has moved past it; when the job has ended with its success
\* flag set, no artifact of an index of the job is on disk.
C23_ArtifactsRemoved ==
    [][ /\ pc \in {"segments", "join"} =>
              \A k \in DOMAIN fs[cur].segs \ DOMAIN fs'[cur'].segs :
                  /\ k = index /\ index' = index + 1
                  /\ fs'[cur'].tmp.data = Append(fs[cur].tmp.data, fs[cur].segs[k])
        /\ (pc \in {"segments", "join"} /\ index' # index) =>
              index \notin DOMAIN fs'[cur'].segs
        /\ (pc' = "post_run" /\ success') =>
              /\ index' = ts_count'
              /\ \A k \in DOMAIN fs'[cur'].segs : k >= ts_count' /\ fs'[cur'].segs[k] = Old
      ]_vars
C23_Witness ==
    /\ pc = "post_run" /\ success /\ ts_count = 2 /\ fs[cur].segs = NoSegs
    /\ dl_entry.segs # NoSegs /\ fs[cur].tmp.data = <<Body(0), Body(1)>>

\* C24: with the selector "best" and a list of renditions that is not empty
\* and has no rendition named "Source", a rendition is selected: the first in
\* manifest order whose BANDWIDTH is the largest of the list.
MaxBandwidth(formats) == Max({formats[i].BANDWIDTH : i \in 1..Len(formats)})
C24_BestPicksFirstMaximum ==
    (pc = "dispatch" /\ args.format = "best" /\ formats_list # <<>>
        /\ \A i \in 1..Len(formats_list) : ~IsSource(formats_list, i)) =>
      \E i \in 1..Len(formats_list) :
        /\ formats_list[i].BANDWIDTH = MaxBandwidth(formats_list)
        /\ \A j \in 1..(i - 1) : formats_list[j].BANDWIDTH < MaxBandwidth(formats_list)
        /\ downloading_format = formats_list[i].location

\* C25: every rendition get_m3u8_info emits has media details and format
\* details that are not empty; its format details are those of the pending
\* format tag with FRAME-RATE, RESOLUTION and CODECS added as "" where the
\* tag had none; renditions are appended in the order of their location
\* lines; a location line with no pending format details, or that does not
\* end in ".m3u8", emits nothing.
OptionalKeys == {<<"FRAME-RATE">>, <<"RESOLUTION">>, <<"CODECS">>}
C25_EmittedRenditions ==
    [][ line_i' = line_i + 1 =>
          LET line == m3u8_text[line_i']
              emitted == m3u8_info'[Len(m3u8_info')]
          IN  /\ \/ m3u8_info' = m3u8_info
                 \/ /\ Len(m3u8_info') = Len(m3u8_info) + 1
                    /\ SubSeq(m3u8_info', 1, Len(m3u8_info)) = m3u8_info
                    /\ emitted.location = line
                    /\ emitted.media # NoDetails /\ emitted.format # NoDetails
                    /\ DOMAIN emitted.format = DOMAIN format_details \cup OptionalKeys
                    /\ \A k \in DOMAIN emitted.format :
                          emitted.format[k] = IF k \in DOMAIN format_details
                                              THEN format_details[k] ELSE <<>>
              /\ (format_details = NoDetails \/ ~EndsWithM3u8(line) \/ StartsWithHash(line)) =>
                    m3u8_info' = m3u8_info
      ]_vars
C25_Witness ==
    /\ pc = "m3u8_done" /\ Len(m3u8_info) = 2
    /\ m3u8_info[1].location = <<"low", ".", "m3u8">>
    /\ m3u8_info[1].format[<<"RESOLUTION">>] = <<>>
    /\ m3u8_info[1].format[<<"CODECS">>] = <<>>
    /\ m3u8_info[1].format[<<"BANDWIDTH">>] = <<"800000">>
    /\ m3u8_info[1].media[<<"NAME">>] = <<"720p">>
    /\ m3u8_info[2].location = <<"chunklist_", "source", "/", "chunklist", ".", "m3u8">>
    /\ m3u8_info[2].format[<<"RESOLUTION">>] = <<"640", "x", "360">>
    /\ m3u8_info[2].format[<<"FRAME-RATE">>] = <<>>

\* C26: an id is added to the download archive only with --download-archive,
\* it is the id of the movie at hand, and <name>.ts or <name>.mp4 exists at
\* that moment; no id is added in a job one of whose segments failed all its
\* attempts; a movie whose id is in the archive is skipped at the entry of
\* dl_movie, before any request and with nothing else changed.
FinalExists(f) == f.mp4 # "none" \/ f.ts.exists
C26_ArchiveOnlyWhenFinal ==
    [][ /\ archive' # archive =>
              /\ args.download_archive
              /\ archive' = archive \cup {cur}
              /\ FinalExists(fs[cur]) /\ fs' = fs
              /\ exhausted = {} /\ "failed to download" \notin log
        /\ archive \subseteq archive'
        /\ (pc = "dl_movie" /\ args.download_archive /\ cur \in archive) =>
              /\ pc' \in {"main", "channel_loop"}
              /\ log' = log \cup {"already recorded in archive"}
              /\ <<fs, archive, jobVars, dlVars, histVars>>'
                    = <<fs, archive, jobVars, dlVars, histVars>>
      ]_vars
C26_Witness ==
    /\ args.download_archive /\ links = <<"m1", "m1">> /\ link_i = 2
    /\ pc = "main" /\ "already recorded in archive" \in log
    /\ fs["m1"].ts = FileOf(<<Body(0), Body(1)>>) /\ archive = {"m1"}
    /\ requested = {}

\* C27: when dl_channel returns, dl_movie has been called once for every
\* movie of every page of the listing that was fetched, in the order of the
\* listing.
\* the pages the loop fetched: movie_list without the page appended after it
PagesFetched == Front(movie_list)
\* the ids dl_channel has handed to dl_movie
Handed == [i \in 1..movie_index |-> movie_list_response[i]]
C27_AllPagesProcessed ==
    [][ (pc = "channel_loop" /\ pc' = "main") => Handed = Flatten(PagesFetched) ]_vars

\* C28: whatever the private API answers, the lookup of
\* derive_media_playlists makes at most two detail requests and at most one
\* free-watch request for a movie; after the second detail request the loop
\* is left; the free-watch request is made only after a first detail answer
\* that has an item without a playlist URL, permission and watches remaining.
C28_PrivateLookupBounded ==
    [][ /\ detail_requests' <= 2 /\ view_requests' <= 1
        /\ view_requests' <= detail_requests'
        /\ (pc = "priv_detail" /\ detail_requests >= 1) =>
              (pc' \in {"derive_fill", "crashed"} /\ view_requests' = view_requests)
        /\ view_requests' > view_requests =>
              /\ detail_requests = 1 /\ view_requests = 0
              /\ pm_json.ok /\ pm_json.status >= 0 /\ pm_json.items > 0
              /\ pm_json.url = NoUrl
              /\ pm_json.has_permission /\ pm_json.remain > 0
        /\ pc' = "priv_view" => (pm_json'.has_permission /\ pm_json'.remain > 0)
      ]_vars
C28_Witness ==
    /\ pc = "derive_fill" /\ args.ps
    /\ detail_requests = 2 /\ view_requests = 1 /\ view_res
    /\ "using free watch" \in log /\ base_url = GameUrl
    /\ pm_json.url = GameUrl

\* C29: the media details of every rendition get_m3u8_info emits are made up
\* for it, or are those of a media tag that stands between the location line
\* before it (emitted or skipped) and its own; after an emission no media
\* details are pending.
IsLocation(line) == ~StartsWithHash(line)
PrevLocation(text, i) == Max({0} \cup {j \in 1..(i - 1) : IsLocation(text[j])})
C29_FreshMediaDetails ==
    [][ Len(m3u8_info') = Len(m3u8_info) + 1 =>
          /\ media_details' = NoDetails
          /\ media_details # NoDetails =>
                \E j \in (PrevLocation(m3u8_text, line_i') + 1)..(line_i' - 1) :
                    /\ StartsWith(m3u8_text[j], "#EXT-X-MEDIA:")
                    /\ m3u8_info'[Len(m3u8_info')].media = parse_m3u8_attributes(m3u8_text[j])
      ]_vars

====
